---- MODULE Spec2Model ----
(***************************************************************************)
(* Model of avalancheup-aws `install-subnet-chain`: the `execute` function *)
(* of src/avalancheup-aws/src/install_subnet_chain/mod.rs.                 *)
(*                                                                         *)
(* `execute` is one straight-line async function.  Every `.await` on an    *)
(* external service (ledger RPC, S3, STS, SSM) is one action of the model; *)
(* the outcome of the external call is a nondeterministic input.  A failed *)
(* `.unwrap()` / `.expect()` ends the run with a panic, a `return Err` or  *)
(* `?` ends it with an error.                                              *)
(*                                                                         *)
(* Strings are sequences of atoms (lexical pieces such as "conf", "/",     *)
(* "subnet", ".", "json"); `format!` is concatenation of such sequences.   *)
(* A command line is the sequence of its blank-separated words.            *)
(***************************************************************************)
EXTENDS Integers, Sequences, FiniteSets, TLC

\* ------------------------------------------------------------------ bounds
\* Largest number of entries of --node-ids-to-instance-ids.
MaxNodes == 2
\* Largest --staking-perioid-in-days.
MaxDays == 2

\* --------------------------------------------------------------- strings
Empty == << >>

IsEmpty(s) == Len(s) = 0

\* s3::append_slash: the string with a "/" appended unless it ends with one
append_slash(s) ==
    IF Len(s) > 0 /\ s[Len(s)] = "/" THEN s ELSE s \o <<"/">>

\* Path::file_name: what follows the last "/" of the path
file_name(p) ==
    LET slashes == {k \in 1..Len(p) : p[k] = "/"}
        from == IF slashes = {} THEN 1
                ELSE 1 + CHOOSE k \in slashes : \A j \in slashes : j <= k
    IN  SubSeq(p, from, Len(p))

\* Path::file_stem: the file name without its last extension (a name that
\* only starts with "." has no extension)
file_stem(p) ==
    LET name == file_name(p)
        dots == {k \in 2..Len(name) : name[k] = "."}
    IN  IF dots = {} THEN name
        ELSE SubSeq(name, 1, (CHOOSE k \in dots : \A j \in dots : j <= k) - 1)

\* ------------------------------------------------------------ identifiers
\* An ids::Id; `bytes` stands for the 32 bytes, written as their cb58 text.
NoId == [bytes |-> Empty]

WellFormedIdStrs == {<<"srEXiWaHuhNy">>}
MalformedIdStrs == {<<"not-cb58">>}

\* ids::Id::from_str
IdFromStr(s) ==
    IF s \in WellFormedIdStrs THEN [ok |-> TRUE, id |-> [bytes |-> s]]
    ELSE [ok |-> FALSE, id |-> NoId]

\* subnet::vm_name_to_id: the name padded to 32 bytes
vm_name_to_id(name) == [ok |-> TRUE, id |-> [bytes |-> <<"vm:">> \o name]]

\* ids::Id to_string
IdToString(id) == id.bytes

\* node-id strings of the request: `valid` says whether node::Id::from_str
\* can decode the string
NodeIdStrs ==
    {[n |-> k, valid |-> TRUE] : k \in 1..MaxNodes} \cup {[n |-> 0, valid |-> FALSE]}

\* node::Id::from_str
NodeIdFromStr(s) == [ok |-> s.valid, id |-> s.n]

InstanceIds == {"i-1", "i-2"}

\* A subnet id or blockchain id is the id of the transaction that creates it.
\* The dry pass builds and signs a transaction without submitting it; the
\* transaction the real pass submits may be the same one or another one.
AcceptedSubnetIds == {<<"2ebCneCbwthj">>}
DrySubnetIds == AcceptedSubnetIds \cup {<<"p4jUwqZsA2Lu">>}
AcceptedBlockchainIds == {<<"2Z36RnQuk1hv">>}
DryBlockchainIds == AcceptedBlockchainIds \cup {<<"Vn3aX6hNRstj">>}
\* Ids of the transactions a second run of the request gets accepted: another
\* transaction has another id.
RerunSubnetIds == {<<"wGk5mXcT9dQe">>}
RerunBlockchainIds == {<<"Jb8sYf3nLpRa">>}

\* ---------------------------------------------------------------- request
KeyPrefixes == {<<"artifacts">>, <<"artifacts", "/">>}
\* --subnet-config-local-path with --subnet-config-remote-dir: neither given,
\* the path without the directory, both given
SubnetConfigFlags ==
    {[local_path |-> Empty, remote_dir |-> Empty],
     [local_path |-> <<"conf", "/", "subnet", ".", "json">>, remote_dir |-> Empty],
     [local_path |-> <<"conf", "/", "subnet", ".", "json">>,
      remote_dir |-> <<"/", "data", "/", "subnet-configs">>]}

\* --chain-config-local-path with --chain-config-remote-dir, likewise
ChainConfigFlags ==
    {[local_path |-> Empty, remote_dir |-> Empty],
     [local_path |-> <<"conf", "/", "chain", ".", "json">>, remote_dir |-> Empty],
     [local_path |-> <<"conf", "/", "chain", ".", "json">>,
      remote_dir |-> <<"/", "data", "/", "chain-configs", "/">>]}
VmIdStrs == {Empty} \cup WellFormedIdStrs \cup MalformedIdStrs

\* HashMap<String, String>: node-id string -> instance id, keys unique
NodeMaps ==
    UNION {[S -> InstanceIds] :
              S \in {T \in SUBSET NodeIdStrs : Cardinality(T) <= MaxNodes}}

\* struct Flags, the fields `execute` reads
Flags ==
    { [ skip_prompt |-> skip,
        region |-> <<"us-west-2">>,
        s3_bucket |-> <<"my-bucket">>,
        s3_key_prefix |-> prefix,
        staking_period_in_days |-> days,
        subnet_config_local_path |-> sc.local_path,
        subnet_config_remote_dir |-> sc.remote_dir,
        vm_binary_local_path |-> <<"target", "/", "release", "/", "subnet-evm">>,
        vm_binary_remote_dir |-> <<"/", "data", "/", "plugins">>,
        vm_id |-> vm,
        chain_name |-> <<"subnetevm">>,
        chain_genesis_path |-> <<"conf", "/", "genesis", ".", "json">>,
        chain_config_local_path |-> cc.local_path,
        chain_config_remote_dir |-> cc.remote_dir,
        avalanchego_config_remote_path |->
            <<"/", "data", "/", "avalanche-configs", "/", "config", ".", "json">>,
        node_ids_to_instance_ids |-> nodes ] :
      skip \in BOOLEAN, prefix \in KeyPrefixes, days \in 0..MaxDays,
      sc \in SubnetConfigFlags, vm \in VmIdStrs, cc \in ChainConfigFlags,
      nodes \in NodeMaps }

\* the items of the prompt: 0 "No, I am not ready ...", 1 "Yes, let's install ..."
PromptItems == {0, 1}

\* `selected` before the prompt was shown
NotAsked == -1

\* ------------------------------------------------------------------ state
VARIABLES
    opts,               \* the Flags `execute` was called with
    fs,                 \* local files that exist
    selected,           \* item the operator selected at the prompt
    polling,            \* indices of the targets whose poll is awaited
    pc,                 \* position of the run inside `execute`
    result,             \* how the run ended: running, ok, err or panic
    effects,            \* calls made to external services, in order
    stdout,             \* the SUCCESS line, once printed
    vm_id,              \* resolved VM id
    all_node_ids,       \* node ids in the map's iteration order
    all_instance_ids,   \* instance ids in the map's iteration order
    i,                  \* next index of the loop the run is in
    subnet_id,          \* id returned by the dry create_subnet
    created_subnet_id,  \* id returned by the accepted create_subnet
    blockchain_id,      \* `blockchain_id` binding: dry id, then shadowed
    ssm_command_id      \* command id of the last send_command

vars ==
    << opts, fs, selected, polling, pc, result, effects, stdout, vm_id, all_node_ids, all_instance_ids,
       i, subnet_id, created_subnet_id, blockchain_id, ssm_command_id >>

locals ==
    << vm_id, all_node_ids, all_instance_ids, i, subnet_id, created_subnet_id,
       blockchain_id, ssm_command_id >>

Running == [status |-> "running", msg |-> ""]

\* the local files a request names
InputFiles(o) ==
    {o.vm_binary_local_path, o.chain_genesis_path}
        \cup (IF IsEmpty(o.subnet_config_local_path) THEN {} ELSE {o.subnet_config_local_path})
        \cup (IF IsEmpty(o.chain_config_local_path) THEN {} ELSE {o.chain_config_local_path})

\* Path::new(path).exists()
Exists(path) == path \in fs

Init ==
    /\ opts \in Flags
    /\ fs \in SUBSET InputFiles(opts)
    /\ selected = NotAsked
    /\ polling = {}
    /\ pc = "preflight"
    /\ result = Running
    /\ effects = << >>
    /\ stdout = << >>
    /\ vm_id = NoId
    /\ all_node_ids = << >>
    /\ all_instance_ids = << >>
    /\ i = 1
    /\ subnet_id = NoId
    /\ created_subnet_id = NoId
    /\ blockchain_id = NoId
    /\ ssm_command_id = ""

\* Requests that differ in --vm-binary-local-path: prompt skipped, longest
\* staking period, at most one node.
VmBinaryPaths ==
    {<<"target", "/", "release", "/", "subnet-evm">>, <<"build", "/", "my-vm", ".", "bin">>}

VmBinaryPathFlags ==
    {[f EXCEPT !.vm_binary_local_path = p] :
        f \in {g \in Flags : /\ g.skip_prompt
                              /\ g.staking_period_in_days = MaxDays
                              /\ Cardinality(DOMAIN g.node_ids_to_instance_ids) <= 1},
        p \in VmBinaryPaths}

InitVmBinaryPaths ==
    /\ opts \in VmBinaryPathFlags
    /\ fs \in SUBSET InputFiles(opts)
    /\ selected = NotAsked
    /\ polling = {}
    /\ pc = "preflight"
    /\ result = Running
    /\ effects = << >>
    /\ stdout = << >>
    /\ vm_id = NoId
    /\ all_node_ids = << >>
    /\ all_instance_ids = << >>
    /\ i = 1
    /\ subnet_id = NoId
    /\ created_subnet_id = NoId
    /\ blockchain_id = NoId
    /\ ssm_command_id = ""

\* `return Err(..)` or `?`: the run ends with an error
ReturnErr(msg) ==
    /\ pc' = "returned"
    /\ result' = [status |-> "err", msg |-> msg]

\* a failed `.unwrap()` or `.expect()`: the run ends with a panic
Panic(msg) ==
    /\ pc' = "returned"
    /\ result' = [status |-> "panic", msg |-> msg]

\* the run goes on at `next`
Goto(next) ==
    /\ pc' = next
    /\ result' = result

\* the call `e` is made to an external service
Call(e) == effects' = Append(effects, e)

\* ------------------------------------------------------- Preflight 278-318
\* Faulty variant: the subnet-config flag check is left out of the local checks.
PreflightError_noSubnetDirCheck(genesis_readable) ==
    IF ~Exists(opts.vm_binary_local_path) THEN "vm binary file not found"
    ELSE IF ~IsEmpty(opts.chain_config_local_path) /\ IsEmpty(opts.chain_config_remote_dir)
        THEN "chain_config_local_path not empty but chain_config_remote_dir empty"
    ELSE IF ~Exists(opts.chain_genesis_path) THEN "chain genesis file not found"
    ELSE IF ~genesis_readable THEN "failed to open chain genesis file"
    ELSE IF ~IsEmpty(opts.vm_id) /\ ~IdFromStr(opts.vm_id).ok THEN "invalid vm id"
    ELSE ""

\* Faulty variant: the genesis file is looked for before the flags are checked.
PreflightError_genesisFirst(genesis_readable) ==
    IF ~Exists(opts.vm_binary_local_path) THEN "vm binary file not found"
    ELSE IF ~Exists(opts.chain_genesis_path) THEN "chain genesis file not found"
    ELSE IF ~IsEmpty(opts.subnet_config_local_path) /\ IsEmpty(opts.subnet_config_remote_dir)
        THEN "subnet_config_local_path not empty but subnet_config_remote_dir empty"
    ELSE IF ~IsEmpty(opts.chain_config_local_path) /\ IsEmpty(opts.chain_config_remote_dir)
        THEN "chain_config_local_path not empty but chain_config_remote_dir empty"
    ELSE IF ~genesis_readable THEN "failed to open chain genesis file"
    ELSE IF ~IsEmpty(opts.vm_id) /\ ~IdFromStr(opts.vm_id).ok THEN "invalid vm id"
    ELSE ""

\* The local checks of `execute`, in the order of the code.
PreflightError(genesis_readable) ==
    IF ~Exists(opts.vm_binary_local_path) THEN "vm binary file not found"
    ELSE IF ~IsEmpty(opts.subnet_config_local_path) /\ IsEmpty(opts.subnet_config_remote_dir)
        THEN "subnet_config_local_path not empty but subnet_config_remote_dir empty"
    ELSE IF ~IsEmpty(opts.chain_config_local_path) /\ IsEmpty(opts.chain_config_remote_dir)
        THEN "chain_config_local_path not empty but chain_config_remote_dir empty"
    ELSE IF ~Exists(opts.chain_genesis_path) THEN "chain genesis file not found"
    ELSE IF ~genesis_readable THEN "failed to open chain genesis file"
    ELSE IF ~IsEmpty(opts.vm_id) /\ ~IdFromStr(opts.vm_id).ok THEN "invalid vm id"
    ELSE ""

\* let vm_id = if opts.vm_id.is_empty() { vm_name_to_id(chain_name) } else { from_str(vm_id) }
ResolveVmId ==
    IF IsEmpty(opts.vm_id) THEN vm_name_to_id(opts.chain_name).id
    ELSE IdFromStr(opts.vm_id).id

Preflight ==
    /\ pc = "preflight"
    /\ \E genesis_readable \in BOOLEAN :
          LET err == PreflightError(genesis_readable)
          IN  IF err # ""
              THEN ReturnErr(err) /\ vm_id' = vm_id
              ELSE Goto("get_network_id") /\ vm_id' = ResolveVmId
    /\ UNCHANGED << opts, fs, selected, polling, effects, stdout, all_node_ids, all_instance_ids, i,
                    subnet_id, created_subnet_id, blockchain_id, ssm_command_id >>

\* ------------------------------------------------ ledger handshake 320-340
Rpc(service, call, ok) ==
    [op |-> "rpc", service |-> service, call |-> call, ok |-> ok]

GetNetworkId ==
    /\ pc = "get_network_id"
    /\ \E ok \in BOOLEAN :
          /\ Call(Rpc("ledger", "info.getNetworkID", ok))
          /\ IF ok THEN Goto("build_wallet") ELSE Panic("get_network_id")
    /\ UNCHANGED << opts, fs, selected, polling, stdout, locals >>

BuildWallet ==
    /\ pc = "build_wallet"
    /\ \/ /\ ReturnErr("invalid private key")
          /\ UNCHANGED effects
       \/ \E ok \in BOOLEAN :
             /\ Call(Rpc("ledger", "wallet.build", ok))
             /\ IF ok THEN Goto("balance") ELSE Panic("wallet build")
    /\ UNCHANGED << opts, fs, selected, polling, stdout, locals >>

GetBalance ==
    /\ pc = "balance"
    /\ \E ok \in BOOLEAN :
          /\ Call(Rpc("ledger", "platform.getBalance", ok))
          /\ IF ok THEN Goto("collect_ids") ELSE Panic("p-chain balance")
    /\ UNCHANGED << opts, fs, selected, polling, stdout, locals >>

\* ------------------------------------------------------ node lists 342-348
\* The orders in which a HashMap with these keys can be iterated.
IterationOrders(m) ==
    {s \in [1..Cardinality(DOMAIN m) -> DOMAIN m] :
        \A a, b \in 1..Cardinality(DOMAIN m) : a # b => s[a] # s[b]}

CollectIds ==
    /\ pc = "collect_ids"
    /\ \E order \in IterationOrders(opts.node_ids_to_instance_ids) :
          /\ all_node_ids' = order
          /\ all_instance_ids' =
                [k \in 1..Len(order) |-> opts.node_ids_to_instance_ids[order[k]]]
    /\ Goto("get_identity")
    /\ UNCHANGED << opts, fs, selected, polling, effects, stdout, vm_id, i, subnet_id, created_subnet_id,
                    blockchain_id, ssm_command_id >>

\* ---------------------------------------------------- AWS clients 374-380
GetIdentity ==
    /\ pc = "get_identity"
    /\ \/ /\ ReturnErr("aws load_config")
          /\ UNCHANGED effects
       \/ \E ok \in BOOLEAN :
             /\ Call(Rpc("sts", "get_identity", ok))
             /\ IF ok THEN Goto("prompt") ELSE Panic("get_identity")
    /\ UNCHANGED << opts, fs, selected, polling, stdout, locals >>

\* ------------------------------------------------------------ prompt 382-406
\* Faulty variant: the run goes on whatever the operator selects.
Prompt_ignoresAnswer ==
    /\ pc = "prompt"
    /\ IF opts.skip_prompt
       THEN Goto("upload_subnet_config") /\ selected' = selected
       ELSE \/ Panic("Select::interact") /\ selected' = selected
            \/ \E item \in PromptItems :
                  /\ selected' = item
                  /\ Goto("upload_subnet_config")
    /\ UNCHANGED << opts, fs, polling, effects, stdout, locals >>

\* if !opts.skip_prompt { let selected = Select::..interact().unwrap();
\*                        if selected == 0 { return Ok(()); } }
Prompt ==
    /\ pc = "prompt"
    /\ IF opts.skip_prompt
       THEN Goto("upload_subnet_config") /\ selected' = selected
       ELSE \/ Panic("Select::interact") /\ selected' = selected
            \/ \E item \in PromptItems :
                  /\ selected' = item
                  /\ IF item = 0
                     THEN pc' = "returned" /\ result' = [status |-> "ok", msg |-> "declined"]
                     ELSE Goto("upload_subnet_config")
    /\ UNCHANGED << opts, fs, polling, effects, stdout, locals >>

\* ------------------------------------------------ StageArtifacts 413-515
\* Faulty variant: the key keeps the extension of the file.
ConfigS3Key_fileName(local_path) == append_slash(opts.s3_key_prefix) \o file_name(local_path)

\* format!("{}{}", s3::append_slash(&opts.s3_key_prefix), file_stem)
ConfigS3Key(local_path) == append_slash(opts.s3_key_prefix) \o file_stem(local_path)

\* Faulty variant: the VM binary is keyed like a config file, by its file stem.
VmBinaryS3Key_fileStem == ConfigS3Key(opts.vm_binary_local_path)

\* format!("{}{}", s3::append_slash(&opts.s3_key_prefix), vm_id.to_string())
VmBinaryS3Key == append_slash(opts.s3_key_prefix) \o IdToString(vm_id)

PutObject(kind, local_path, key, ok) ==
    [op |-> "put_object", kind |-> kind, path |-> local_path,
     bucket |-> opts.s3_bucket, key |-> key, ok |-> ok]

UploadSubnetConfig ==
    /\ pc = "upload_subnet_config"
    /\ IF IsEmpty(opts.subnet_config_local_path)
       THEN Goto("upload_vm_binary") /\ UNCHANGED effects
       ELSE \E ok \in BOOLEAN :
               IF ~Exists(opts.subnet_config_local_path)
               THEN ReturnErr("subnet config file not found") /\ UNCHANGED effects
               ELSE /\ Call(PutObject("subnet-config", opts.subnet_config_local_path,
                                      ConfigS3Key(opts.subnet_config_local_path), ok))
                    /\ IF ok THEN Goto("upload_vm_binary")
                       ELSE Panic("failed put_object subnet_config_path")
    /\ UNCHANGED << opts, fs, selected, polling, stdout, locals >>

UploadVmBinary ==
    /\ pc = "upload_vm_binary"
    /\ \E ok \in BOOLEAN :
          /\ Call(PutObject("vm-binary", opts.vm_binary_local_path, VmBinaryS3Key, ok))
          /\ IF ok THEN Goto("upload_chain_config")
             ELSE Panic("failed put_object vm_binary_path")
    /\ UNCHANGED << opts, fs, selected, polling, stdout, locals >>

\* Faulty variant: when the chain-config upload fails, the VM binary uploaded
\* before it is deleted from the bucket.
UploadChainConfig_rollsBack ==
    /\ pc = "upload_chain_config"
    /\ IF IsEmpty(opts.chain_config_local_path)
       THEN Goto("add_validator") /\ UNCHANGED effects
       ELSE \E ok \in BOOLEAN :
               IF ~Exists(opts.chain_config_local_path)
               THEN ReturnErr("subnet chain config file not found") /\ UNCHANGED effects
               ELSE IF ok
               THEN /\ Call(PutObject("chain-config", opts.chain_config_local_path,
                                      ConfigS3Key(opts.chain_config_local_path), TRUE))
                    /\ Goto("add_validator")
               ELSE /\ effects' = effects \o
                          << PutObject("chain-config", opts.chain_config_local_path,
                                       ConfigS3Key(opts.chain_config_local_path), FALSE),
                             [op |-> "delete_object", bucket |-> opts.s3_bucket,
                              key |-> VmBinaryS3Key, ok |-> TRUE] >>
                    /\ Panic("failed put_object chain_config_path")
    /\ i' = 1
    /\ UNCHANGED << opts, fs, selected, polling, stdout, vm_id, all_node_ids, all_instance_ids, subnet_id,
                    created_subnet_id, blockchain_id, ssm_command_id >>

UploadChainConfig ==
    /\ pc = "upload_chain_config"
    /\ IF IsEmpty(opts.chain_config_local_path)
       THEN Goto("add_validator") /\ UNCHANGED effects
       ELSE \E ok \in BOOLEAN :
               IF ~Exists(opts.chain_config_local_path)
               THEN ReturnErr("subnet chain config file not found") /\ UNCHANGED effects
               ELSE /\ Call(PutObject("chain-config", opts.chain_config_local_path,
                                      ConfigS3Key(opts.chain_config_local_path), ok))
                    /\ IF ok THEN Goto("add_validator")
                       ELSE Panic("failed put_object chain_config_path")
    /\ i' = 1
    /\ UNCHANGED << opts, fs, selected, polling, stdout, vm_id, all_node_ids, all_instance_ids, subnet_id,
                    created_subnet_id, blockchain_id, ssm_command_id >>

\* ------------------------------------- RegisterPrimaryValidators 522-544
\* first argument of both validate_period_in_days calls
ValidateStartOffsetDays == 60

\* .validate_period_in_days(60, opts.staking_period_in_days)
PrimaryValidatePeriod ==
    [offset |-> ValidateStartOffsetDays, days |-> opts.staking_period_in_days]

\* The loop over opts.node_ids_to_instance_ids: the map is not modified
\* after all_node_ids was filled from it, so it is iterated in that order.
AddValidator ==
    /\ pc = "add_validator"
    /\ \/ /\ i <= Len(all_node_ids)
          /\ LET parsed == NodeIdFromStr(all_node_ids[i])
             IN  IF ~parsed.ok
                 THEN Panic("node::Id::from_str") /\ UNCHANGED << effects, i >>
                 ELSE \E ok \in BOOLEAN :
                         /\ Call([op |-> "add_validator", node_id |-> parsed.id,
                                  period |-> PrimaryValidatePeriod,
                                  check_acceptance |-> TRUE, ok |-> ok])
                         /\ IF ok THEN Goto("add_validator") /\ i' = i + 1
                            ELSE Panic("add_validator") /\ i' = i
       \/ /\ i > Len(all_node_ids)
          /\ Goto("create_subnet_dry")
          /\ UNCHANGED << effects, i >>
    /\ UNCHANGED << opts, fs, selected, polling, stdout, vm_id, all_node_ids, all_instance_ids, subnet_id,
                    created_subnet_id, blockchain_id, ssm_command_id >>

\* ---------------------------------------------------- CreateSubnet 551-574
Sleep(secs) == [op |-> "sleep", secs |-> secs]

CreateSubnetDry ==
    /\ pc = "create_subnet_dry"
    /\ \E ok \in BOOLEAN, id \in DrySubnetIds :
          IF ok
          THEN /\ Call([op |-> "create_subnet", dry_mode |-> TRUE,
                        check_acceptance |-> FALSE, ok |-> TRUE, id |-> [bytes |-> id]])
               /\ subnet_id' = [bytes |-> id]
               /\ Goto("create_subnet")
          ELSE /\ Call([op |-> "create_subnet", dry_mode |-> TRUE,
                        check_acceptance |-> FALSE, ok |-> FALSE, id |-> NoId])
               /\ subnet_id' = subnet_id
               /\ Panic("create_subnet dry")
    /\ UNCHANGED << opts, fs, selected, polling, stdout, vm_id, all_node_ids, all_instance_ids, i,
                    created_subnet_id, blockchain_id, ssm_command_id >>

\* The ids the ledger can give the next accepted create_subnet: the id of a
\* transaction is not the id of a transaction accepted before.
FreshSubnetIds ==
    IF \E k \in DOMAIN effects :
          effects[k].op = "create_subnet" /\ ~effects[k].dry_mode /\ effects[k].ok
    THEN RerunSubnetIds ELSE AcceptedSubnetIds

\* Faulty variant: a subnet accepted before is used instead of creating one.
CreateSubnet_reusesAccepted ==
    /\ pc = "create_subnet"
    /\ LET before == {k \in DOMAIN effects :
                         /\ effects[k].op = "create_subnet"
                         /\ ~effects[k].dry_mode /\ effects[k].ok}
       IN  IF before # {}
           THEN /\ effects' = effects
                /\ created_subnet_id' = effects[CHOOSE k \in before : TRUE].id
                /\ Goto("send_install")
           ELSE \E ok \in BOOLEAN, id \in FreshSubnetIds :
                   IF ok
                   THEN /\ effects' = effects \o
                              << [op |-> "create_subnet", dry_mode |-> FALSE,
                                  check_acceptance |-> TRUE, ok |-> TRUE,
                                  id |-> [bytes |-> id]],
                                 Sleep(10) >>
                        /\ created_subnet_id' = [bytes |-> id]
                        /\ Goto("send_install")
                   ELSE /\ Call([op |-> "create_subnet", dry_mode |-> FALSE,
                                 check_acceptance |-> TRUE, ok |-> FALSE, id |-> NoId])
                        /\ created_subnet_id' = created_subnet_id
                        /\ Panic("create_subnet")
    /\ UNCHANGED << opts, fs, selected, polling, stdout, vm_id, all_node_ids, all_instance_ids, i,
                    subnet_id, blockchain_id, ssm_command_id >>

CreateSubnet ==
    /\ pc = "create_subnet"
    /\ \E ok \in BOOLEAN, id \in FreshSubnetIds :
          IF ok
          THEN /\ effects' = effects \o
                     << [op |-> "create_subnet", dry_mode |-> FALSE,
                         check_acceptance |-> TRUE, ok |-> TRUE, id |-> [bytes |-> id]],
                        Sleep(10) >>
               /\ created_subnet_id' = [bytes |-> id]
               /\ Goto("send_install")
          ELSE /\ Call([op |-> "create_subnet", dry_mode |-> FALSE,
                        check_acceptance |-> TRUE, ok |-> FALSE, id |-> NoId])
               /\ created_subnet_id' = created_subnet_id
               /\ Panic("create_subnet")
    /\ UNCHANGED << opts, fs, selected, polling, stdout, vm_id, all_node_ids, all_instance_ids, i,
                    subnet_id, blockchain_id, ssm_command_id >>

\* ------------------------------- DispatchInstallCommand, poll 581-651
\* pub const NAME: the name of this subcommand of avalancheup-aws
NAME == <<"install-subnet-chain">>

\* Faulty variant: --s3-bucket is rendered before --region.
InstallSubcmd_bucketFirst ==
    << <<"install-subnet">>,
       <<"--log-level">>, <<"info">>,
       <<"--s3-bucket">>, opts.s3_bucket,
       <<"--region">>, opts.region,
       <<"--vm-binary-s3-key">>, VmBinaryS3Key,
       <<"--vm-binary-local-path">>,
           append_slash(opts.vm_binary_remote_dir) \o IdToString(vm_id),
       <<"--subnet-id-to-track">>, IdToString(created_subnet_id),
       <<"--avalanchego-config-path">>, opts.avalanchego_config_remote_path >>

\* Faulty variant: the key of the VM binary is rendered from its local path.
InstallSubcmd_keyFromPath ==
    << <<"install-subnet">>,
       <<"--log-level">>, <<"info">>,
       <<"--region">>, opts.region,
       <<"--s3-bucket">>, opts.s3_bucket,
       <<"--vm-binary-s3-key">>, ConfigS3Key(opts.vm_binary_local_path),
       <<"--vm-binary-local-path">>,
           append_slash(opts.vm_binary_remote_dir) \o IdToString(vm_id),
       <<"--subnet-id-to-track">>, IdToString(created_subnet_id),
       <<"--avalanchego-config-path">>, opts.avalanchego_config_remote_path >>

\* let subcmd = format!("install-subnet --log-level info --region {region} ...")
InstallSubcmd ==
    << <<"install-subnet">>,
       <<"--log-level">>, <<"info">>,
       <<"--region">>, opts.region,
       <<"--s3-bucket">>, opts.s3_bucket,
       <<"--vm-binary-s3-key">>, VmBinaryS3Key,
       <<"--vm-binary-local-path">>,
           append_slash(opts.vm_binary_remote_dir) \o IdToString(vm_id),
       <<"--subnet-id-to-track">>, IdToString(created_subnet_id),
       <<"--avalanchego-config-path">>, opts.avalanchego_config_remote_path >>

\* Faulty variant: the subnet-config flags are rendered for every request.
InstallAvalanchedArgs_always ==
    InstallSubcmd \o
        << <<"--subnet-config-s3-key">>,
               ConfigS3Key(opts.subnet_config_local_path),
           <<"--subnet-config-local-path">>,
               append_slash(opts.subnet_config_remote_dir)
                   \o IdToString(created_subnet_id) \o <<".json">> >>

\* let avalanched_args = if !opts.subnet_config_local_path.is_empty() {..} else { subcmd }
InstallAvalanchedArgs ==
    IF ~IsEmpty(opts.subnet_config_local_path)
    THEN InstallSubcmd \o
            << <<"--subnet-config-s3-key">>,
                   ConfigS3Key(opts.subnet_config_local_path),
               <<"--subnet-config-local-path">>,
                   append_slash(opts.subnet_config_remote_dir)
                       \o IdToString(created_subnet_id) \o <<".json">> >>
    ELSE InstallSubcmd

SendCommand(args, ok, command_id) ==
    [op |-> "send_command", instance_ids |-> all_instance_ids,
     args |-> args, ok |-> ok, command_id |-> command_id]

\* The command id SSM gives the next command: ids are unique per command.
CommandIds == <<"cmd-1", "cmd-2", "cmd-3", "cmd-4">>

NextCommandId ==
    CommandIds[1 + Cardinality({k \in DOMAIN effects :
                                   effects[k].op = "send_command" /\ effects[k].ok})]

\* Faulty variant: the command id of the first dispatch is kept for the polls
\* of the second one.
SendTo_keepsFirstCommandId(args, next) ==
    \E ok \in BOOLEAN, id \in {NextCommandId} :
       IF ok
       THEN /\ effects' = effects \o << SendCommand(args, TRUE, id), Sleep(30) >>
            /\ ssm_command_id' = IF ssm_command_id = "" THEN id ELSE ssm_command_id
            /\ i' = 1
            /\ Goto(next)
       ELSE /\ Call(SendCommand(args, FALSE, ""))
            /\ UNCHANGED << ssm_command_id, i >>
            /\ Panic("send_command")

\* Faulty variant: the polls start right after the dispatch has returned.
SendTo_noSettleDelay(args, next) ==
    \E ok \in BOOLEAN, id \in {NextCommandId} :
       IF ok
       THEN /\ Call(SendCommand(args, TRUE, id))
            /\ ssm_command_id' = id
            /\ i' = 1
            /\ Goto(next)
       ELSE /\ Call(SendCommand(args, FALSE, ""))
            /\ UNCHANGED << ssm_command_id, i >>
            /\ Panic("send_command")

\* ssm_manager.cli.send_command()...send().await.unwrap(); sleep(30s)
SendTo(args, next) ==
    \E ok \in BOOLEAN, id \in {NextCommandId} :
       IF ok
       THEN /\ effects' = effects \o << SendCommand(args, TRUE, id), Sleep(30) >>
            /\ ssm_command_id' = id
            /\ i' = 1
            /\ Goto(next)
       ELSE /\ Call(SendCommand(args, FALSE, ""))
            /\ UNCHANGED << ssm_command_id, i >>
            /\ Panic("send_command")

\* Statuses a poll can end with: the desired one, or one that is not (a
\* failed or timed-out invocation; the run treats every other status alike).
PollStatuses == {"Success", "TimedOut"}

\* what ssm_manager.poll_command(..).await yields: Ok(status) or Err
PollOutcomes ==
    {[ok |-> TRUE, status |-> st] : st \in PollStatuses} \cup {[ok |-> FALSE, status |-> ""]}

\* Faulty variant: the Result of poll_command is dropped instead of unwrapped.
PollPanics_ignored(outcome) == FALSE

\* what the run does with the outcome of one poll_command(..).await.unwrap()
PollPanics(outcome) == ~outcome.ok

\* the call poll_command(ssm_command_id, instance_id, Success, 300s, 5s) for
\* the target at index `m`, with what it returned
PollCommand(m, outcome) ==
    [op |-> "poll_command", command_id |-> ssm_command_id,
     instance_id |-> all_instance_ids[m], desired |-> "Success",
     timeout_secs |-> 300, interval_secs |-> 5,
     ok |-> outcome.ok, status |-> outcome.status]

\* Faulty variant: the poll loop ends after its first target.
PollAll_firstTargetOnly(next) ==
    \/ /\ i <= Len(all_instance_ids)
       /\ i <= 1
       /\ polling = {}
       /\ polling' = {i}
       /\ Goto(pc)
       /\ UNCHANGED << effects, i >>
    \/ /\ polling = {i}
       /\ polling' = {}
       /\ \E outcome \in PollOutcomes :
             /\ Call(PollCommand(i, outcome))
             /\ IF PollPanics(outcome)
                THEN Panic("poll_command") /\ i' = i
                ELSE Goto(pc) /\ i' = i + 1
    \/ /\ (i > Len(all_instance_ids) \/ i > 1)
       /\ polling = {}
       /\ polling' = {}
       /\ Call(Sleep(5))
       /\ i' = 1
       /\ Goto(next)

\* Faulty variant: the polls of all targets are started together and
\* awaited as they return (a join over the targets).
PollAll_joined(next) ==
    \/ /\ i <= Len(all_instance_ids)
       /\ polling = {}
       /\ polling' = i..Len(all_instance_ids)
       /\ i' = Len(all_instance_ids) + 1
       /\ Goto(pc)
       /\ UNCHANGED effects
    \/ /\ polling # {}
       /\ \E m \in polling, outcome \in PollOutcomes :
             /\ polling' = polling \ {m}
             /\ Call(PollCommand(m, outcome))
             /\ IF PollPanics(outcome) THEN Panic("poll_command") ELSE Goto(pc)
       /\ i' = i
    \/ /\ i > Len(all_instance_ids)
       /\ polling = {}
       /\ polling' = {}
       /\ Call(Sleep(5))
       /\ i' = 1
       /\ Goto(next)

\* Faulty variant: a target that has not reached the desired status is
\* polled again.
PollAll_untilSuccess(next) ==
    \/ /\ i <= Len(all_instance_ids)
       /\ polling = {}
       /\ polling' = {i}
       /\ Goto(pc)
       /\ UNCHANGED << effects, i >>
    \/ /\ polling = {i}
       /\ polling' = {}
       /\ \E outcome \in PollOutcomes :
             /\ Call(PollCommand(i, outcome))
             /\ IF PollPanics(outcome)
                THEN Panic("poll_command") /\ i' = i
                ELSE Goto(pc) /\ i' = IF outcome.status = "Success" THEN i + 1 ELSE i
    \/ /\ i > Len(all_instance_ids)
       /\ polling = {}
       /\ polling' = {}
       /\ Call(Sleep(5))
       /\ i' = 1
       /\ Goto(next)

\* for instance_id in all_instance_ids.iter() { poll_command(..).await.unwrap(); }
\* sleep(5s)
\* Each poll is a call that is started and then awaited: the loop goes to
\* the next target when the call has returned.
PollAll(next) ==
    \/ /\ i <= Len(all_instance_ids)
       /\ polling = {}
       /\ polling' = {i}
       /\ Goto(pc)
       /\ UNCHANGED << effects, i >>
    \/ /\ polling = {i}
       /\ polling' = {}
       /\ \E outcome \in PollOutcomes :
             /\ Call(PollCommand(i, outcome))
             /\ IF PollPanics(outcome)
                THEN Panic("poll_command") /\ i' = i
                ELSE Goto(pc) /\ i' = i + 1
    \/ /\ i > Len(all_instance_ids)
       /\ polling = {}
       /\ polling' = {}
       /\ Call(Sleep(5))
       /\ i' = 1
       /\ Goto(next)

SendInstallCommand ==
    /\ pc = "send_install"
    /\ SendTo(InstallAvalanchedArgs, "poll_install")
    /\ UNCHANGED << opts, fs, selected, polling, stdout, vm_id, all_node_ids, all_instance_ids, subnet_id,
                    created_subnet_id, blockchain_id >>

PollInstallCommand ==
    /\ pc = "poll_install"
    /\ PollAll("add_subnet_validator")
    /\ UNCHANGED << opts, fs, selected, stdout, vm_id, all_node_ids, all_instance_ids, subnet_id,
                    created_subnet_id, blockchain_id, ssm_command_id >>

\* -------------------------------------- RegisterSubnetValidators 658-677
\* Faulty variant: the subnet validation period is the primary one.
SubnetValidatePeriodDays_notShortened == opts.staking_period_in_days

\* opts.staking_period_in_days - 1 on u64.  For 0 the subtraction overflows:
\* the build either panics there or wraps to 2^64 - 1, which is written -1
\* here (its residue), TLC's integers being narrower than u64.
SubnetValidatePeriodDays == opts.staking_period_in_days - 1

\* .validate_period_in_days(60, opts.staking_period_in_days - 1)
SubnetValidatePeriod ==
    [offset |-> ValidateStartOffsetDays, days |-> SubnetValidatePeriodDays]

\* Faulty variant: the id of the dry create_subnet is passed on.
SubnetIdArg_dry == subnet_id

\* .subnet_id(..) of add_subnet_validator and of both create_chain calls
SubnetIdArg == created_subnet_id

AddSubnetValidator ==
    /\ pc = "add_subnet_validator"
    /\ \/ /\ i <= Len(all_node_ids)
          /\ LET parsed == NodeIdFromStr(all_node_ids[i])
             IN  IF ~parsed.ok
                 THEN Panic("node::Id::from_str") /\ UNCHANGED << effects, i >>
                 ELSE \/ /\ opts.staking_period_in_days = 0
                         /\ Panic("attempt to subtract with overflow")
                         /\ UNCHANGED << effects, i >>
                      \/ \E ok \in BOOLEAN :
                            /\ Call([op |-> "add_subnet_validator",
                                     node_id |-> parsed.id, subnet_id |-> SubnetIdArg,
                                     period |-> SubnetValidatePeriod,
                                     check_acceptance |-> TRUE, ok |-> ok])
                            /\ IF ok THEN Goto(pc) /\ i' = i + 1
                               ELSE Panic("add_subnet_validator") /\ i' = i
       \/ /\ i > Len(all_node_ids)
          /\ Call(Sleep(5))
          /\ i' = 1
          /\ Goto("create_chain_dry")
    /\ UNCHANGED << opts, fs, selected, polling, stdout, vm_id, all_node_ids, all_instance_ids, subnet_id,
                    created_subnet_id, blockchain_id, ssm_command_id >>

\* ----------------------------------------------------- CreateChain 684-714
CreateChainCall(dry, ok, id) ==
    [op |-> "create_chain", subnet_id |-> SubnetIdArg, vm_id |-> vm_id,
     chain_name |-> opts.chain_name, genesis_path |-> opts.chain_genesis_path,
     dry_mode |-> dry, check_acceptance |-> ~dry, ok |-> ok, id |-> id]

CreateChainDry ==
    /\ pc = "create_chain_dry"
    /\ \E ok \in BOOLEAN, id \in DryBlockchainIds :
          IF ok
          THEN /\ Call(CreateChainCall(TRUE, TRUE, [bytes |-> id]))
               /\ blockchain_id' = [bytes |-> id]
               /\ Goto("create_chain")
          ELSE /\ Call(CreateChainCall(TRUE, FALSE, NoId))
               /\ blockchain_id' = blockchain_id
               /\ Panic("create_chain dry")
    /\ UNCHANGED << opts, fs, selected, polling, stdout, vm_id, all_node_ids, all_instance_ids, i,
                    subnet_id, created_subnet_id, ssm_command_id >>

\* The ids the ledger can give the next accepted create_chain.
FreshBlockchainIds ==
    IF \E k \in DOMAIN effects :
          effects[k].op = "create_chain" /\ ~effects[k].dry_mode /\ effects[k].ok
    THEN RerunBlockchainIds ELSE AcceptedBlockchainIds

\* Faulty variant: the chain-config command is dispatched for every request.
CreateChain_alwaysSendsChainConfig ==
    /\ pc = "create_chain"
    /\ \E ok \in BOOLEAN, id \in FreshBlockchainIds :
          IF ok
          THEN /\ Call(CreateChainCall(FALSE, TRUE, [bytes |-> id]))
               /\ blockchain_id' = [bytes |-> id]
               /\ Goto("send_chain_config")
          ELSE /\ Call(CreateChainCall(FALSE, FALSE, NoId))
               /\ blockchain_id' = blockchain_id
               /\ Panic("create_chain")
    /\ UNCHANGED << opts, fs, selected, polling, stdout, vm_id, all_node_ids, all_instance_ids, i,
                    subnet_id, created_subnet_id, ssm_command_id >>

CreateChain ==
    /\ pc = "create_chain"
    /\ \E ok \in BOOLEAN, id \in FreshBlockchainIds :
          IF ok
          THEN /\ Call(CreateChainCall(FALSE, TRUE, [bytes |-> id]))
               /\ blockchain_id' = [bytes |-> id]
               /\ Goto(IF IsEmpty(opts.chain_config_local_path)
                       THEN "success" ELSE "send_chain_config")
          ELSE /\ Call(CreateChainCall(FALSE, FALSE, NoId))
               /\ blockchain_id' = blockchain_id
               /\ Panic("create_chain")
    /\ UNCHANGED << opts, fs, selected, polling, stdout, vm_id, all_node_ids, all_instance_ids, i,
                    subnet_id, created_subnet_id, ssm_command_id >>

\* ---------------------------------- chain-config dispatch and poll 716-780
\* Faulty variant: the config path is built from the id of the subnet.
ChainConfigAvalanchedArgs_subnetId ==
    << <<"install-chain">>,
       <<"--log-level">>, <<"info">>,
       <<"--region">>, opts.region,
       <<"--s3-bucket">>, opts.s3_bucket,
       <<"--chain-config-s3-key">>, ConfigS3Key(opts.chain_config_local_path),
       <<"--chain-config-local-path">>,
           append_slash(opts.chain_config_remote_dir)
               \o IdToString(created_subnet_id) \o <<"/", "config", ".", "json">> >>

\* let avalanched_args = format!("install-chain --log-level info ...")
ChainConfigAvalanchedArgs ==
    << <<"install-chain">>,
       <<"--log-level">>, <<"info">>,
       <<"--region">>, opts.region,
       <<"--s3-bucket">>, opts.s3_bucket,
       <<"--chain-config-s3-key">>, ConfigS3Key(opts.chain_config_local_path),
       <<"--chain-config-local-path">>,
           append_slash(opts.chain_config_remote_dir)
               \o IdToString(blockchain_id) \o <<"/", "config", ".", "json">> >>

SendChainConfigCommand ==
    /\ pc = "send_chain_config"
    /\ SendTo(ChainConfigAvalanchedArgs, "poll_chain_config")
    /\ UNCHANGED << opts, fs, selected, polling, stdout, vm_id, all_node_ids, all_instance_ids, subnet_id,
                    created_subnet_id, blockchain_id >>

PollChainConfigCommand ==
    /\ pc = "poll_chain_config"
    /\ PollAll("success")
    /\ UNCHANGED << opts, fs, selected, stdout, vm_id, all_node_ids, all_instance_ids, subnet_id,
                    created_subnet_id, blockchain_id, ssm_command_id >>

\* ------------------------------------------------------------ Done 782-793
\* Faulty variant: the run returns Ok(()) without printing the SUCCESS line.
PrintSuccess_silent ==
    /\ pc = "success"
    /\ pc' = "returned"
    /\ result' = [status |-> "ok", msg |-> "SUCCESS"]
    /\ UNCHANGED << opts, fs, selected, polling, effects, stdout, locals >>

PrintSuccess ==
    /\ pc = "success"
    /\ stdout' = Append(stdout, [subnet_id |-> created_subnet_id,
                                 blockchain_id |-> blockchain_id])
    /\ pc' = "returned"
    /\ result' = [status |-> "ok", msg |-> "SUCCESS"]
    /\ UNCHANGED << opts, fs, selected, polling, effects, locals >>

\* ---------------------------------------------------------- specification
Next ==
    \/ Preflight
    \/ GetNetworkId
    \/ BuildWallet
    \/ GetBalance
    \/ CollectIds
    \/ GetIdentity
    \/ Prompt
    \/ UploadSubnetConfig
    \/ UploadVmBinary
    \/ UploadChainConfig
    \/ AddValidator
    \/ CreateSubnetDry
    \/ CreateSubnet
    \/ SendInstallCommand
    \/ PollInstallCommand
    \/ AddSubnetValidator
    \/ CreateChainDry
    \/ CreateChain
    \/ SendChainConfigCommand
    \/ PollChainConfigCommand
    \/ PrintSuccess

Spec == Init /\ [][Next]_vars

\* runs of requests that differ in the local path of the VM binary
SpecVmBinaryPaths == InitVmBinaryPaths /\ [][Next]_vars

\* ------------------------------------------------------ a second run
\* calls of info.getNetworkID: the first call of a run that passed its local checks
RunStarts ==
    {k \in DOMAIN effects : effects[k].op = "rpc" /\ effects[k].call = "info.getNetworkID"}

\* The operator runs the same request again after a run that failed with its
\* subnet already accepted: `execute` starts anew, the bucket, the ledger
\* and the fleet are as the first run left them.
Rerun ==
    /\ pc = "returned"
    /\ result.status \in {"err", "panic"}
    /\ Cardinality(RunStarts) = 1
    /\ \E k \in DOMAIN effects :
          effects[k].op = "create_subnet" /\ ~effects[k].dry_mode /\ effects[k].ok
    /\ pc' = "preflight"
    /\ result' = Running
    /\ vm_id' = NoId
    /\ all_node_ids' = << >>
    /\ all_instance_ids' = << >>
    /\ i' = 1
    /\ subnet_id' = NoId
    /\ created_subnet_id' = NoId
    /\ blockchain_id' = NoId
    /\ ssm_command_id' = ""
    /\ selected' = NotAsked
    /\ polling' = {}
    /\ UNCHANGED << opts, fs, effects, stdout >>

\* Requests of the runs that are run again: prompt skipped, longest staking
\* period, one well-formed node id, vm id from the chain name, no subnet config.
RerunFlags ==
    {f \in Flags : /\ f.skip_prompt
                   /\ f.staking_period_in_days = MaxDays
                   /\ IsEmpty(f.vm_id)
                   /\ IsEmpty(f.subnet_config_local_path)
                   /\ f.s3_key_prefix = <<"artifacts">>
                   /\ Cardinality(DOMAIN f.node_ids_to_instance_ids) = 1
                   /\ \A s \in DOMAIN f.node_ids_to_instance_ids : s.valid /\ s.n = 1}

InitRerun ==
    /\ opts \in RerunFlags
    /\ fs = InputFiles(opts)
    /\ selected = NotAsked
    /\ polling = {}
    /\ pc = "preflight"
    /\ result = Running
    /\ effects = << >>
    /\ stdout = << >>
    /\ vm_id = NoId
    /\ all_node_ids = << >>
    /\ all_instance_ids = << >>
    /\ i = 1
    /\ subnet_id = NoId
    /\ created_subnet_id = NoId
    /\ blockchain_id = NoId
    /\ ssm_command_id = ""

NextRerun == Next \/ Rerun

SpecRerun == InitRerun /\ [][NextRerun]_vars

\* ------------------------------- requests that differ in the remote dirs
\* --chain-config-remote-dir written with and without a trailing slash
ChainConfigRemoteDirs ==
    {<<"/", "data", "/", "chain-configs", "/">>, <<"/", "data", "/", "chain-configs">>}

\* Requests with the prompt skipped, the longest staking period and at most
\* one node: those without a chain-config file, and those with one, for each
\* way of writing the remote directory.
ChainConfigDirFlags ==
    LET small == {g \in Flags : /\ g.skip_prompt
                                /\ g.staking_period_in_days = MaxDays
                                /\ Cardinality(DOMAIN g.node_ids_to_instance_ids) <= 1}
    IN  {g \in small : IsEmpty(g.chain_config_local_path)}
            \cup {[f EXCEPT !.chain_config_remote_dir = d] :
                      f \in {g \in small : ~IsEmpty(g.chain_config_local_path)
                                              /\ ~IsEmpty(g.chain_config_remote_dir)},
                      d \in ChainConfigRemoteDirs}

InitChainConfigDirs ==
    /\ opts \in ChainConfigDirFlags
    /\ fs \in SUBSET InputFiles(opts)
    /\ selected = NotAsked
    /\ polling = {}
    /\ pc = "preflight"
    /\ result = Running
    /\ effects = << >>
    /\ stdout = << >>
    /\ vm_id = NoId
    /\ all_node_ids = << >>
    /\ all_instance_ids = << >>
    /\ i = 1
    /\ subnet_id = NoId
    /\ created_subnet_id = NoId
    /\ blockchain_id = NoId
    /\ ssm_command_id = ""

SpecChainConfigDirs == InitChainConfigDirs /\ [][Next]_vars

\* ------------------------------------------------------- runs that go on
\* `execute` is one task: whenever it can take its next step (the call it
\* awaits returns, the operator answers the prompt), it takes it.
SpecFair == Init /\ [][Next]_vars /\ WF_vars(Next)

\* ============================================================== properties
\* The calls of the run, read back from `effects`.
Events == DOMAIN effects

Ops(names) == {k \in Events : effects[k].op \in names}

\* calls that stage an artifact, issue a ledger operation or dispatch a command
Mutating ==
    Ops({"put_object", "add_validator", "create_subnet", "add_subnet_validator",
         "create_chain", "send_command"})

\* every call to a service over the network
NetworkCalls == {k \in Events : effects[k].op # "sleep"}

FailedCalls == {k \in NetworkCalls : ~effects[k].ok}

Failed == result.status \in {"err", "panic"}

\* the word that follows `flag` among the words `w` (Empty when the flag is absent)
FlagValue(w, flag) ==
    LET at == {k \in 1..(Len(w) - 1) : w[k] = << flag >>}
    IN  IF at = {} THEN Empty ELSE w[1 + CHOOSE k \in at : TRUE]

HasFlag(w, flag) == \E k \in 1..Len(w) : w[k] = << flag >>

\* accepted ledger entities of the run
RealSubnetIds ==
    {effects[k].id : k \in {j \in Ops({"create_subnet"}) :
                                ~effects[j].dry_mode /\ effects[j].ok}}
RealBlockchainIds ==
    {effects[k].id : k \in {j \in Ops({"create_chain"}) :
                                ~effects[j].dry_mode /\ effects[j].ok}}
DrySubnetIdsReturned ==
    {effects[k].id : k \in {j \in Ops({"create_subnet"}) :
                                effects[j].dry_mode /\ effects[j].ok}}
DryBlockchainIdsReturned ==
    {effects[k].id : k \in {j \in Ops({"create_chain"}) :
                                effects[j].dry_mode /\ effects[j].ok}}

\* the dispatches: the install command is sent before any create_chain call,
\* the chain-config command after
Sends == Ops({"send_command"})
InstallSends == {k \in Sends : \A j \in Ops({"create_chain"}) : k < j}
ChainConfigSends == Sends \ InstallSends

PollsOf(k) ==
    {j \in Ops({"poll_command"}) : j > k /\ effects[j].command_id = effects[k].command_id}

NodeCount == Cardinality(DOMAIN opts.node_ids_to_instance_ids)

\* ---- stages
IsCall(e) == e.op # "sleep"

\* Stage of a call: 0 Preflight, 1 StageArtifacts, 2 RegisterPrimaryValidators,
\* 3 CreateSubnet, 4 DispatchInstallCommand, 5 PollInstallCommand,
\* 6 RegisterSubnetValidators, 7 CreateChain, 8 DispatchChainConfigCommand,
\* 9 PollChainConfigCommand.  `chain_cmds` are the ids of the commands that
\* run install-chain.
StageOfCall(e, chain_cmds) ==
    CASE e.op = "rpc" -> 0
      [] e.op = "put_object" -> 1
      [] e.op = "add_validator" -> 2
      [] e.op = "create_subnet" -> 3
      [] e.op = "send_command" -> IF Head(e.args) = <<"install-chain">> THEN 8 ELSE 4
      [] e.op = "poll_command" -> IF e.command_id \in chain_cmds THEN 9 ELSE 5
      [] e.op = "add_subnet_validator" -> 6
      [] e.op = "create_chain" -> 7

\* Stage the run is in (10 Done, 11 returned).
StageOfPc(at) ==
    CASE at \in {"preflight", "get_network_id", "build_wallet", "balance",
                 "collect_ids", "get_identity", "prompt"} -> 0
      [] at \in {"upload_subnet_config", "upload_vm_binary", "upload_chain_config"} -> 1
      [] at = "add_validator" -> 2
      [] at \in {"create_subnet_dry", "create_subnet"} -> 3
      [] at = "send_install" -> 4
      [] at = "poll_install" -> 5
      [] at = "add_subnet_validator" -> 6
      [] at \in {"create_chain_dry", "create_chain"} -> 7
      [] at = "send_chain_config" -> 8
      [] at = "poll_chain_config" -> 9
      [] at = "success" -> 10
      [] at = "returned" -> 11

OkCalls(op) == {k \in Ops({op}) : effects[k].ok}

\* the dry call of a dry-then-real pair comes first, and each is made once
DryThenReal(op) ==
    /\ \A a, b \in Ops({op}) : a < b => effects[a].dry_mode /\ ~effects[b].dry_mode
    /\ \A b \in Ops({op}) :
          ~effects[b].dry_mode => \E a \in OkCalls(op) : a < b /\ effects[a].dry_mode

\* every target of the dispatches `sends` has been polled, and no poll failed
AllPolled(sends) ==
    /\ sends # {}
    /\ \A c \in sends :
          /\ effects[c].ok
          /\ Cardinality(PollsOf(c)) = NodeCount
          /\ \A j \in PollsOf(c) : effects[j].ok

\* every node has been registered by a call `op`
AllRegistered(op) ==
    /\ Cardinality(OkCalls(op)) = NodeCount
    /\ {effects[k].node_id : k \in OkCalls(op)}
          = {s.n : s \in DOMAIN opts.node_ids_to_instance_ids}

\* what must be complete before a call of a stage after `n` is made
StageComplete(n) ==
    CASE n = 0 -> Cardinality(OkCalls("rpc")) = 4
      [] n = 1 ->
            /\ \E k \in OkCalls("put_object") : effects[k].kind = "vm-binary"
            /\ ~IsEmpty(opts.subnet_config_local_path)
                  => \E k \in OkCalls("put_object") : effects[k].kind = "subnet-config"
            /\ ~IsEmpty(opts.chain_config_local_path)
                  => \E k \in OkCalls("put_object") : effects[k].kind = "chain-config"
      [] n = 2 -> AllRegistered("add_validator")
      [] n = 3 ->
            \E a, b \in OkCalls("create_subnet") :
                a < b /\ effects[a].dry_mode /\ ~effects[b].dry_mode
      [] n = 4 -> \E c \in InstallSends : effects[c].ok
      [] n = 5 -> AllPolled(InstallSends)
      [] n = 6 -> AllRegistered("add_subnet_validator")
      [] n = 7 ->
            \E a, b \in OkCalls("create_chain") :
                a < b /\ effects[a].dry_mode /\ ~effects[b].dry_mode
      [] n = 8 -> \E c \in ChainConfigSends : effects[c].ok
      [] n = 9 -> AllPolled(ChainConfigSends)

C1_CallsInStageOrder ==
    LET calls == SelectSeq(effects, IsCall)
        chain_cmds ==
            {calls[k].command_id :
                k \in {j \in DOMAIN calls : /\ calls[j].op = "send_command"
                                             /\ Head(calls[j].args) = <<"install-chain">>}}
        stage == [k \in DOMAIN calls |-> StageOfCall(calls[k], chain_cmds)]
        last == IF calls = << >> THEN 0 ELSE stage[Len(calls)]
        top == IF stdout # << >> THEN 10 ELSE last
    IN  /\ \A k \in 1..(Len(calls) - 1) : stage[k] <= stage[k + 1]
        /\ last <= StageOfPc(pc)
        /\ stdout # << >> => pc = "returned"
        /\ DryThenReal("create_subnet")
        /\ DryThenReal("create_chain")
        /\ Cardinality(Sends) <= 2 /\ Cardinality(InstallSends) <= 1
        /\ \A n \in 0..7 : top > n => StageComplete(n)
        /\ top = 9 => StageComplete(8)
        /\ top = 10 =>
              IF IsEmpty(opts.chain_config_local_path)
              THEN ChainConfigSends = {}
              ELSE StageComplete(8) /\ StageComplete(9)

\* C1: the calls of a run are made in the stage order Preflight,
\* StageArtifacts, RegisterPrimaryValidators (all nodes), CreateSubnet (dry,
\* real), DispatchInstallCommand, PollInstallCommand (all targets),
\* RegisterSubnetValidators (all nodes), CreateChain (dry, real), optional
\* chain-config dispatch and poll, Done; a call of a stage is made only after
\* the stage before it is complete for every node and target, and the stage
\* the run is in never decreases.
C1_StageOrder ==
    /\ []C1_CallsInStageOrder
    /\ [][StageOfPc(pc') >= StageOfPc(pc)]_vars

\* a successful run of a request with two nodes and a chain config: every stage was passed
C1_Witness ==
    /\ stdout # << >>
    /\ NodeCount = 2
    /\ \E c \in ChainConfigSends : Cardinality(PollsOf(c)) = 2

\* C2: a failed call is the last call of its run: once an upload, a ledger
\* operation, a dispatch or a poll has failed, or the run has returned an
\* error, the run has returned and makes no further call.
C2_FailFast ==
    /\ \A k \in FailedCalls : k = Len(effects)
    /\ Failed => pc = "returned"
    /\ (result.status = "panic"
            /\ result.msg \notin {"Select::interact", "node::Id::from_str",
                                  "attempt to subtract with overflow"})
          => FailedCalls = {Len(effects)}

\* the poll of the first of two targets failed: the second target is not polled
C2_Witness ==
    /\ Failed
    /\ Len(all_instance_ids) = 2
    /\ \E c \in InstallSends :
          /\ Cardinality(PollsOf(c)) = 1
          /\ \E j \in PollsOf(c) : ~effects[j].ok

\* C3: when the run has returned and a poll of a dispatched batch ended with
\* anything but success, the run has failed and every target of the batch
\* has been polled.
C3_AllTargetsReported ==
    pc = "returned" =>
        \A c \in OkCalls("send_command") :
            (\E j \in PollsOf(c) : ~effects[j].ok \/ effects[j].status # "Success")
                => /\ Failed
                   /\ Cardinality(PollsOf(c)) = Len(effects[c].instance_ids)

\* ---- preflight
SubnetDirMissing ==
    ~IsEmpty(opts.subnet_config_local_path) /\ IsEmpty(opts.subnet_config_remote_dir)

GenesisMissing == opts.chain_genesis_path \notin fs

\* C4: a request with subnet_config_local_path set and subnet_config_remote_dir
\* empty, or whose genesis file does not exist, never gets past the local
\* checks: the run makes no network call, and it returns an error.
C4_PreflightRejectsLocally ==
    (SubnetDirMissing \/ GenesisMissing) =>
        /\ NetworkCalls = {}
        /\ pc \in {"preflight", "returned"}
        /\ pc = "returned" => result.status = "err"

\* the run was rejected for the subnet-config flags, its genesis file missing too
C4_Witness ==
    /\ pc = "returned"
    /\ GenesisMissing
    /\ result.msg = "subnet_config_local_path not empty but subnet_config_remote_dir empty"

\* C5: a run that fails because a file the request names does not exist has
\* staged no artifact, issued no ledger operation and dispatched no command.
C5_MissingFileBeforeSideEffects ==
    result.msg \in {"vm binary file not found", "chain genesis file not found",
                    "subnet config file not found", "subnet chain config file not found"}
        => Mutating = {}

\* C6: a run that fails because a node-id string cannot be parsed has staged
\* no artifact, issued no ledger operation and dispatched no command.
C6_MalformedNodeIdBeforeSideEffects ==
    result.msg = "node::Id::from_str" => Mutating = {}

\* ---- ids
\* C7: the subnet id in the install command, in every add_subnet_validator
\* call, in both create_chain calls and in the SUCCESS line is the id the
\* accepted create_subnet returned; the blockchain id in the chain-config
\* command and in the SUCCESS line is the id the accepted create_chain
\* returned.
C7_OnlyAcceptedIdsUsed ==
    /\ \A k \in InstallSends :
          LET w == effects[k].args
          IN  /\ \E id \in RealSubnetIds :
                    FlagValue(w, "--subnet-id-to-track") = IdToString(id)
              /\ HasFlag(w, "--subnet-config-local-path") =>
                    \E id \in RealSubnetIds :
                        FlagValue(w, "--subnet-config-local-path")
                            = append_slash(opts.subnet_config_remote_dir)
                                  \o IdToString(id) \o <<".json">>
    /\ \A k \in Ops({"add_subnet_validator", "create_chain"}) :
          effects[k].subnet_id \in RealSubnetIds
    /\ \A k \in ChainConfigSends :
          \E id \in RealBlockchainIds :
              FlagValue(effects[k].args, "--chain-config-local-path")
                  = append_slash(opts.chain_config_remote_dir)
                        \o IdToString(id) \o <<"/", "config", ".", "json">>
    /\ \A n \in DOMAIN stdout :
          /\ stdout[n].subnet_id \in RealSubnetIds
          /\ stdout[n].blockchain_id \in RealBlockchainIds

\* a successful run whose dry passes returned other ids than the real passes
C7_Witness ==
    /\ stdout # << >>
    /\ ChainConfigSends # {}
    /\ ~IsEmpty(opts.subnet_config_local_path)
    /\ DrySubnetIdsReturned \cap RealSubnetIds = {}
    /\ DryBlockchainIdsReturned \cap RealBlockchainIds = {}

\* ---- staking periods
\* end of a validation period, in days after issuance: start + days
PeriodEnd(period) == period.offset + period.days

\* C8: for a staking period d > 1, every add_subnet_validator call has the
\* start offset of the node's add_validator call (60 days) and a period of
\* d - 1 days: its period ends exactly one day before the primary one.
C8_SubnetPeriodOneDayShorter ==
    opts.staking_period_in_days > 1 =>
        \A k \in Ops({"add_subnet_validator"}) :
            \E j \in OkCalls("add_validator") :
                /\ j < k
                /\ effects[j].node_id = effects[k].node_id
                /\ effects[j].period.offset = 60
                /\ effects[j].period.days = opts.staking_period_in_days
                /\ effects[k].period.offset = effects[j].period.offset
                /\ effects[k].period.days = opts.staking_period_in_days - 1
                /\ PeriodEnd(effects[k].period) = PeriodEnd(effects[j].period) - 1

\* both nodes of a request with d > 1 are registered as subnet validators
C8_Witness ==
    /\ opts.staking_period_in_days > 1
    /\ Cardinality(OkCalls("add_subnet_validator")) = 2

\* C9: a run that has staged an artifact or issued a ledger operation has
\* a staking period of more than one day.
C9_StakingPeriodChecked ==
    Mutating # {} => opts.staking_period_in_days > 1

\* ---- install command
\* the words `w` of an install command: the subcommand `name`, then the flags
InstallCommandIs(w, name) ==
    /\ Len(w) >= 15
    /\ SubSeq(w, 1, 15) =
          << name,
             <<"--log-level">>, <<"info">>,
             <<"--region">>, opts.region,
             <<"--s3-bucket">>, opts.s3_bucket,
             <<"--vm-binary-s3-key">>, w[9],
             <<"--vm-binary-local-path">>,
                 append_slash(opts.vm_binary_remote_dir) \o IdToString(vm_id),
             <<"--subnet-id-to-track">>, w[13],
             <<"--avalanchego-config-path">>, opts.avalanchego_config_remote_path >>
    /\ \E k \in OkCalls("put_object") :
          effects[k].kind = "vm-binary" /\ effects[k].key = w[9]
    /\ \E id \in RealSubnetIds : w[13] = IdToString(id)

\* C10 as stated: the install command starts with NAME, `install-subnet-chain`.
C10_InstallCommandStartsWithName ==
    \A k \in InstallSends : InstallCommandIs(effects[k].args, NAME)

\* C10, amended: the install command starts with `install-subnet`, followed
\* in this order by --log-level info, --region, --s3-bucket,
\* --vm-binary-s3-key, --vm-binary-local-path (remote dir + vm id),
\* --subnet-id-to-track and --avalanchego-config-path, each with the value
\* of the request, the key of the uploaded VM binary or the accepted subnet id.
C10_InstallCommandShape ==
    \A k \in InstallSends : InstallCommandIs(effects[k].args, <<"install-subnet">>)

\* an install command was dispatched to two targets
C10_Witness ==
    \E k \in InstallSends : effects[k].ok /\ Len(effects[k].instance_ids) = 2

\* ---- subnet-config flags of the install command
\* dir + '/' + name as a path: one separator between the directory and the name
JoinPath(dir, name) ==
    IF Len(dir) > 0 /\ dir[Len(dir)] = "/" THEN dir \o name ELSE dir \o <<"/">> \o name

\* C11: the install command has the flags --subnet-config-s3-key and
\* --subnet-config-local-path exactly when subnet_config_local_path of the
\* request is not empty, and then the value of --subnet-config-local-path is
\* subnet_config_remote_dir + '/' + the created subnet id + '.json'.
C11_SubnetConfigFlagsIffPath ==
    \A k \in InstallSends :
        LET w == effects[k].args
            given == ~IsEmpty(opts.subnet_config_local_path)
        IN  /\ HasFlag(w, "--subnet-config-s3-key") <=> given
            /\ HasFlag(w, "--subnet-config-local-path") <=> given
            /\ given =>
                  \E id \in RealSubnetIds :
                      FlagValue(w, "--subnet-config-local-path")
                          = JoinPath(opts.subnet_config_remote_dir,
                                     IdToString(id) \o <<".json">>)

\* an install command with the subnet-config flags was dispatched
C11_Witness ==
    \E k \in InstallSends :
        effects[k].ok /\ HasFlag(effects[k].args, "--subnet-config-local-path")

\* ---- object-store keys
ConfigUploads ==
    {k \in Ops({"put_object"}) : effects[k].kind \in {"subnet-config", "chain-config"}}

\* the part of the path after its last "/"
BaseName(path) ==
    LET cut == {k \in 0..Len(path) : k = 0 \/ path[k] = "/"}
        last == CHOOSE k \in cut : \A j \in cut : j <= k
    IN  SubSeq(path, last + 1, Len(path))

\* `ext` is nothing, or one extension: a "." followed by atoms that are not "."
IsExtension(ext) ==
    \/ ext = << >>
    \/ /\ Len(ext) >= 2
       /\ ext[1] = "."
       /\ \A k \in 2..Len(ext) : ext[k] # "."

VmBinaryUploads == {k \in Ops({"put_object"}) : effects[k].kind = "vm-binary"}

ReportsCreatedIds ==
    /\ RealSubnetIds # {}
    /\ RealBlockchainIds # {}
    /\ Len(stdout) = 1
    /\ stdout[1].subnet_id \in RealSubnetIds
    /\ stdout[1].blockchain_id \in RealBlockchainIds

\* C14 as stated: a run that has ended with success has created a subnet and
\* a blockchain and has printed their ids, once.
C14_SuccessReportsCreatedIds ==
    /\ result.status = "ok" => ReportsCreatedIds
    /\ Len(stdout) <= 1

\* C14, amended: a run that has ended with success either was declined at
\* the prompt (the request does not skip the prompt; nothing was uploaded,
\* issued, dispatched or printed) or has created a subnet and a blockchain and
\* has printed their ids; the SUCCESS line is printed at most once, and only
\* by a run that ends with success.
C14_SuccessReportsCreatedIdsUnlessDeclined ==
    /\ result.status = "ok" =>
          /\ pc = "returned"
          /\ \/ ~opts.skip_prompt /\ Mutating = {} /\ stdout = << >>
             \/ ReportsCreatedIds
    /\ Len(stdout) <= 1
    /\ stdout # << >> => result.status = "ok"

\* a run whose prompt was answered with yes has ended with success
C14_Witness ==
    /\ result.status = "ok"
    /\ ~opts.skip_prompt
    /\ ReportsCreatedIds

\* C15: a run that has failed after it created a subnet or a blockchain has
\* reported, with the error, the ids it created.  What a run reports is its
\* result (status and message of the error) and what it printed.
C15_FailureSurfacesPartialResult ==
    Failed =>
        /\ \A id \in RealSubnetIds : \E n \in DOMAIN stdout : stdout[n].subnet_id = id
        /\ \A id \in RealBlockchainIds : \E n \in DOMAIN stdout : stdout[n].blockchain_id = id

\* ---- calls of a successful run
NodeMap == opts.node_ids_to_instance_ids

\* the calls `op` are one per node of the request
OnePerNode(op) ==
    /\ Cardinality(Ops({op})) = NodeCount
    /\ \A s \in DOMAIN NodeMap :
          Cardinality({k \in Ops({op}) : effects[k].node_id = s.n}) = 1

\* the calls `op` are one dry call and then one real call
OneDryThenOneReal(op) ==
    /\ Cardinality(Ops({op})) = 2
    /\ \E a, b \in Ops({op}) : a < b /\ effects[a].dry_mode /\ ~effects[b].dry_mode

\* `ids` holds the instance id of every node of the request, once per node
AddressesAllNodes(ids) ==
    /\ Len(ids) = NodeCount
    /\ \A s \in DOMAIN NodeMap :
          Cardinality({k \in DOMAIN ids : ids[k] = NodeMap[s]})
              = Cardinality({t \in DOMAIN NodeMap : NodeMap[t] = NodeMap[s]})

\* C16: a successful run of a request with N nodes and no subnet-config or
\* chain-config file has made N add_validator calls (one per node), one dry
\* and then one real create_subnet, one install dispatch addressed to the N
\* instance ids, N add_subnet_validator calls (one per node), one dry and
\* then one real create_chain, and no chain-config dispatch.
C16_CallsOfSuccessfulRun ==
    (/\ stdout # << >>
     /\ IsEmpty(opts.subnet_config_local_path)
     /\ IsEmpty(opts.chain_config_local_path))
        => /\ OnePerNode("add_validator")
           /\ OneDryThenOneReal("create_subnet")
           /\ Cardinality(Sends) = 1
           /\ \A k \in Sends :
                 /\ effects[k].args[1] = <<"install-subnet">>
                 /\ AddressesAllNodes(effects[k].instance_ids)
           /\ OnePerNode("add_subnet_validator")
           /\ OneDryThenOneReal("create_chain")
           /\ ChainConfigSends = {}
           /\ \A a \in Ops({"add_validator"}), b \in Ops({"create_subnet"}),
                 c \in Sends, d \in Ops({"add_subnet_validator"}),
                 e \in Ops({"create_chain"}) : a < b /\ b < c /\ c < d /\ d < e

\* a successful run of a request with two nodes and no config files
C16_Witness ==
    /\ stdout # << >>
    /\ NodeCount = 2
    /\ IsEmpty(opts.subnet_config_local_path)
    /\ IsEmpty(opts.chain_config_local_path)

\* ---- runs of the same request
AcceptedSubnets ==
    {k \in Ops({"create_subnet"}) : ~effects[k].dry_mode /\ effects[k].ok}

\* the calls made by the second run
SecondRun ==
    IF Cardinality(RunStarts) < 2 THEN {}
    ELSE {k \in Events : \A j \in RunStarts : j <= k}

\* C17: a run of a request whose earlier run failed after its subnet was
\* accepted makes no call that looks for that subnet, and it dispatches,
\* registers subnet validators and creates a chain only after a real
\* create_subnet of its own, with the id of that one: once it got that far,
\* two subnets exist.
C17_RerunCreatesSecondSubnet ==
    /\ \A k \in Ops({"rpc"}) :
          effects[k].call \in {"info.getNetworkID", "wallet.build",
                               "platform.getBalance", "get_identity"}
    /\ \A k \in SecondRun :
          effects[k].op \in {"send_command", "add_subnet_validator", "create_chain"} =>
              \E j \in AcceptedSubnets \cap SecondRun :
                  /\ j < k
                  /\ Cardinality(AcceptedSubnets) = 2
                  /\ Cardinality(RealSubnetIds) = 2
                  /\ effects[k].op # "send_command" => effects[k].subnet_id = effects[j].id
                  /\ effects[k].op = "send_command" /\ Head(effects[k].args) = <<"install-subnet">>
                        => FlagValue(effects[k].args, "--subnet-id-to-track")
                              = IdToString(effects[j].id)

\* the second run of a request has had its own subnet accepted
C17_Witness ==
    /\ Cardinality(AcceptedSubnets \cap SecondRun) = 1
    /\ Cardinality(RealSubnetIds) = 2
    /\ \E k \in SecondRun : effects[k].op = "send_command" /\ effects[k].ok

\* ---- what a run leaves behind
\* the calls `execute` makes
KnownOps ==
    {"rpc", "put_object", "add_validator", "create_subnet", "send_command", "sleep",
     "poll_command", "add_subnet_validator", "create_chain"}

\* objects in the bucket: uploaded, and not deleted since
StagedObjects ==
    {[bucket |-> effects[k].bucket, key |-> effects[k].key, path |-> effects[k].path] :
        k \in {j \in OkCalls("put_object") :
                  ~\E d \in Events : /\ d > j
                                      /\ effects[d].op \notin KnownOps
                                      /\ effects[d].key = effects[j].key}}

\* ledger entities: accepted registrations, subnets and chains
LedgerEntities ==
    {effects[k] : k \in {j \in Ops({"add_validator", "add_subnet_validator",
                                      "create_subnet", "create_chain"}) :
                              effects[j].ok /\ effects[j].check_acceptance}}

\* C18: no step of a run removes or changes an uploaded artifact or an
\* accepted ledger entity, and no call is a delete or an undo: what earlier
\* stages uploaded and created is still there after a failure.
C18_NoRollback ==
    /\ [][/\ StagedObjects \subseteq StagedObjects'
           /\ LedgerEntities \subseteq LedgerEntities'
           /\ SubSeq(effects', 1, Len(effects)) = effects]_vars
    /\ [](\A k \in Events : effects[k].op \in KnownOps)

\* a run failed with artifacts in the bucket and a subnet on the ledger
C18_Witness ==
    /\ Failed
    /\ Cardinality(StagedObjects) >= 2
    /\ \E e \in LedgerEntities : e.op = "create_subnet"
    /\ \E e \in LedgerEntities : e.op = "add_validator"

\* ---- targets of a dispatch
\* C19: the instance ids of every dispatched batch are pairwise distinct,
\* one for each node id of the request.
C19_TargetsDistinct ==
    \A k \in Sends :
        LET ids == effects[k].instance_ids
        IN  /\ Len(ids) = NodeCount
            /\ \A a, b \in DOMAIN ids : a # b => ids[a] # ids[b]
            /\ \A s, t \in DOMAIN NodeMap : s # t => NodeMap[s] # NodeMap[t]

\* the dispatch a poll belongs to: the last send_command before it
DispatchOf(k) == CHOOSE c \in Sends : c < k /\ \A d \in Sends : d < k => d <= c

\* C20: a dispatch stage sends one command to all targets at once and gets
\* one command id, which no other dispatch has; every poll is made with the
\* command id of the dispatch of its stage and for one of that dispatch's
\* targets.
C20_PollsUseDispatchCommandId ==
    /\ Cardinality(InstallSends) <= 1
    /\ Cardinality(ChainConfigSends) <= 1
    /\ \A c \in Sends :
          /\ effects[c].instance_ids = all_instance_ids
          /\ AddressesAllNodes(effects[c].instance_ids)
          /\ effects[c].ok => effects[c].command_id # ""
          /\ \A d \in Sends :
                (d # c /\ effects[c].ok /\ effects[d].ok)
                    => effects[d].command_id # effects[c].command_id
    /\ \A k \in Ops({"poll_command"}) :
          /\ \E c \in Sends : c < k
          /\ LET sent == effects[DispatchOf(k)]
             IN  /\ sent.ok
                 /\ effects[k].command_id = sent.command_id
                 /\ \E t \in DOMAIN sent.instance_ids :
                       sent.instance_ids[t] = effects[k].instance_id

\* both targets of the chain-config dispatch were polled, after the polls of
\* the install dispatch
C20_Witness ==
    /\ \E c \in InstallSends : Cardinality(PollsOf(c)) = 2
    /\ \E c \in ChainConfigSends :
          /\ Cardinality(PollsOf(c)) = 2
          /\ Cardinality({effects[j].instance_id : j \in PollsOf(c)}) = 2

\* ---- chain-config dispatch
\* the dispatches of install-chain
InstallChainSends == {k \in Sends : Head(effects[k].args) = <<"install-chain">>}

\* polls issued after a create_chain call
PollsAfterCreateChain ==
    {j \in Ops({"poll_command"}) : \E c \in Ops({"create_chain"}) : c < j}

\* C21: the chain-config command is dispatched and polled exactly when
\* chain_config_local_path of the request is not empty: without the path no
\* install-chain command is sent and nothing is polled after create_chain;
\* with it, the run goes from the accepted create_chain to the dispatch, and
\* reaches the end only with every target polled.  Every install-chain
\* dispatch comes after an accepted real create_chain, and its
\* --chain-config-local-path is chain_config_remote_dir + '/' + the id of
\* that blockchain + '/config.json'.
C21_ChainConfigDispatchIffPath ==
    LET given == ~IsEmpty(opts.chain_config_local_path)
    IN  /\ ~given => /\ InstallChainSends = {}
                      /\ PollsAfterCreateChain = {}
                      /\ pc \notin {"send_chain_config", "poll_chain_config"}
        /\ (given /\ RealBlockchainIds # {})
              => (pc = "send_chain_config" \/ InstallChainSends # {})
        /\ (given /\ pc = "success") => AllPolled(InstallChainSends)
        /\ \A k \in InstallChainSends :
              \E c \in Ops({"create_chain"}) :
                  /\ c < k
                  /\ ~effects[c].dry_mode
                  /\ effects[c].ok
                  /\ FlagValue(effects[k].args, "--chain-config-local-path")
                        = JoinPath(opts.chain_config_remote_dir,
                                   IdToString(effects[c].id)
                                       \o <<"/", "config", ".", "json">>)

\* a run with a chain-config file, its remote directory written without a
\* trailing slash, has dispatched install-chain and polled its target
C21_Witness ==
    /\ pc = "success"
    /\ NodeCount = 1
    /\ opts.chain_config_remote_dir = <<"/", "data", "/", "chain-configs">>
    /\ \E k \in InstallChainSends : effects[k].ok /\ PollsOf(k) # {}

\* ---- confirmation prompt
\* C22: the prompt is answered at most once in a run, and before anything is
\* staged, issued or dispatched: `selected` is set only by the step at the
\* prompt, with no upload, ledger transaction or dispatch made so far, and
\* never changes afterwards; and a run makes such a call only if skip_prompt
\* is set or the operator selected "Yes".
C22_PromptOnceBeforeMutation ==
    /\ [][selected' # selected
             => (pc = "prompt" /\ selected = NotAsked /\ Mutating = {})]_vars
    /\ [][pc = "prompt" => pc' # "prompt"]_vars
    /\ [](Mutating # {} => (opts.skip_prompt \/ selected = 1))
    /\ [](opts.skip_prompt => selected = NotAsked)

\* the operator was asked after the handshake with the ledger and the
\* identity check, selected "No", and the run has returned
C22_Witness ==
    /\ ~opts.skip_prompt
    /\ selected = 0
    /\ pc = "returned"
    /\ Cardinality(OkCalls("rpc")) = 4

\* ---- order of the local checks
\* the violations the claim lists, in its order, with the error of each
PreflightViolations ==
    << [present |-> ~Exists(opts.vm_binary_local_path),
        msg |-> "vm binary file not found"],
       [present |-> ~IsEmpty(opts.subnet_config_local_path)
                       /\ IsEmpty(opts.subnet_config_remote_dir),
        msg |-> "subnet_config_local_path not empty but subnet_config_remote_dir empty"],
       [present |-> ~IsEmpty(opts.chain_config_local_path)
                       /\ IsEmpty(opts.chain_config_remote_dir),
        msg |-> "chain_config_local_path not empty but chain_config_remote_dir empty"],
       [present |-> ~Exists(opts.chain_genesis_path),
        msg |-> "chain genesis file not found"] >>

PresentViolations == {k \in DOMAIN PreflightViolations : PreflightViolations[k].present}

\* C23: when the request has one or more of the violations (VM binary file
\* missing, subnet-config path without remote dir, chain-config path without
\* remote dir, genesis file missing), the run ends at the local checks,
\* before any call, with the error of the violation that comes first in
\* this order.
C23_FirstViolationReported ==
    (pc # "preflight" /\ PresentViolations # {})
        => LET first == CHOOSE k \in PresentViolations :
                            \A j \in PresentViolations : k <= j
           IN  /\ pc = "returned"
               /\ effects = << >>
               /\ result = [status |-> "err", msg |-> PreflightViolations[first].msg]

\* a run of a request with the VM binary in place, a subnet-config path
\* without its remote dir and no genesis file has ended
C23_Witness ==
    /\ pc = "returned"
    /\ PresentViolations = {2, 4}

\* ---- settle delay
\* C24: every poll of a command id comes after a delay that follows at once
\* the dispatch which returned that id: nothing is polled between the
\* dispatch and the end of the delay.
C24_SettleDelayBeforeFirstPoll ==
    \A k \in Sends :
        effects[k].ok =>
            \A j \in Ops({"poll_command"}) :
                effects[j].command_id = effects[k].command_id
                    => /\ j > k + 1
                       /\ effects[k + 1].op = "sleep"
                       /\ effects[k + 1].secs > 0

\* both commands were dispatched and each has been polled
C24_Witness ==
    /\ Cardinality(Sends) = 2
    /\ \A k \in Sends : effects[k].ok /\ PollsOf(k) # {}

\* ---- polls one at a time
\* the polls of the command being polled that have returned
ReturnedPolls ==
    {j \in Ops({"poll_command"}) : effects[j].command_id = ssm_command_id}

\* C25: at most one poll is awaited at any moment; the poll of a target is
\* started only when the polls of all targets before it have returned; and
\* the polls of a command return in the order of its targets, so that a
\* target whose poll ends by timeout holds back every target after it.
C25_PollsOneAtATime ==
    /\ Cardinality(polling) <= 1
    /\ \A m \in polling :
          /\ pc \in {"poll_install", "poll_chain_config"}
          /\ Cardinality(ReturnedPolls) = m - 1
    /\ \A k \in Sends :
          effects[k].ok =>
              \A j \in PollsOf(k) :
                  LET nth == Cardinality({x \in PollsOf(k) : x <= j})
                  IN  /\ nth <= Len(effects[k].instance_ids)
                      /\ effects[j].instance_id = effects[k].instance_ids[nth]

\* the poll of the first target ended by timeout, and only then the poll of
\* the second target was started
C25_Witness ==
    /\ polling = {2}
    /\ \E j \in ReturnedPolls :
          /\ effects[j].status = "TimedOut"
          /\ effects[j].instance_id = all_instance_ids[1]

KeyFlags ==
    {[flag |-> "--vm-binary-s3-key", kind |-> "vm-binary"],
     [flag |-> "--subnet-config-s3-key", kind |-> "subnet-config"],
     [flag |-> "--chain-config-s3-key", kind |-> "chain-config"]}

\* C27: every key that a dispatched command carries in --vm-binary-s3-key,
\* --subnet-config-s3-key or --chain-config-s3-key is the key of an upload
\* of an artifact of that kind which succeeded before the dispatch, into
\* the bucket the command names.
C27_CommandKeysWereStaged ==
    \A k \in Sends :
        LET w == effects[k].args
        IN  \A f \in KeyFlags :
                HasFlag(w, f.flag) =>
                    \E u \in Ops({"put_object"}) :
                        /\ u < k
                        /\ effects[u].ok
                        /\ effects[u].kind = f.kind
                        /\ effects[u].key = FlagValue(w, f.flag)
                        /\ effects[u].bucket = FlagValue(w, "--s3-bucket")

\* commands carrying the three kinds of key have been dispatched
C27_Witness ==
    \A f \in KeyFlags :
        \E k \in Sends : effects[k].ok /\ HasFlag(effects[k].args, f.flag)

====
